---- MODULE Spec2Model ----
(***************************************************************************)
(* Project / stage access control and lifecycle of the OAuthCode package:  *)
(* projectHandler (api/projects/index.ts), projectDetailHandler            *)
(* (api/projects/[id].ts) and the registration handler with registerUser,  *)
(* over a Prisma store of User, Project and ProjectStage rows.  Every      *)
(* handler is split at its awaited storage calls: one action per storage   *)
(* call, each action including the synchronous code that follows the call  *)
(* up to the next await.  The middleware made by createAuthMiddleware is   *)
(* split in the same way at its await of getToken.                         *)
(***************************************************************************)
EXTENDS Integers, Sequences, FiniteSets, TLC

\* ------------------------------------------------------------------ bounds
MaxProjects == 1      \* rows the Project table ever gets: ids 1..MaxProjects
MaxClock == 2         \* timestamped writes: the clock runs 0..MaxClock
NumSlots == 2         \* request slots (requests that can be in flight)
ConcProjects == 2     \* rows the Project table gets when requests overlap
ConcClock == 3        \* timestamped writes when requests overlap
RaceProjects == 1     \* rows the Project table gets when a DELETE overlaps
RaceClock == 2        \* timestamped writes when a DELETE overlaps

\* ------------------------------------------------------------ JS values
\* undefined for string-valued fields (a header, session.user.id, email)
Undef == "undefined"
\* an optional field is a sequence: <<>> when absent, <<v>> when present
None == <<>>
Some(v) == <<v>>
\* a nullable string is a sequence: <<>> for null, <<s>> for the string s
Null == <<>>
\* an empty JSON document {}
EmptyDoc == <<>>

\* strings that are inspected character by character are character sequences
EmptyTitle == <<>>
BlankTitle == <<" ">>
DemoTitle == <<"D", "e", "m", "o">>
DemoTags == <<"x", "y">>

Slots == 1..NumSlots
\* the slots of the sequential specification: one request at a time
SeqSlots == {1}

Users == {"u1", "u2"}
AdminEmail == "admin@example.com"
EmailOf(u) == IF u = "u1" THEN AdminEmail ELSE "user@example.com"

\* registration inputs: names and passwords are character sequences
ShortName == <<"A">>
DemoName == <<"A", "l">>
NewEmail == "new@example.com"
MalformedEmail == "not-an-email"
ShortPassword == <<"s", "e", "c", "r", "e", "t", "1">>
PasswordA == <<"p", "a", "s", "s", "w", "o", "r", "d">>
PasswordB == <<"P", "A", "S", "S", "W", "O", "R", "D", "1">>

\* the module-level PrismaClient of each route
Clients == {"collection", "item", "register"}

\* the default stage list of projectHandler (the StageName enum, in order)
DefaultStages ==
  <<"Ideation", "Planning", "Research", "Development", "Testing",
    "Deployment", "Maintenance", "Review">>

\* ---------------------------------------------------------------- state
VARIABLES
  adminEmails,   \* projectHandler parameter: the admin allow-list
  customStages,  \* projectHandler parameter: the configured stage names
  corsEnabled,   \* parameter of both handlers
  failing,       \* fault injection: the storage calls of a request that throw
  limit,         \* the workload: projects created and timestamped writes made
  users,         \* the User table: a set of rows
  connected,     \* per PrismaClient: it holds a database connection
  projects,      \* the Project table: a set of rows
  stages,        \* the ProjectStage table: a set of rows
  nextId,        \* the next id the store generates for a Project
  now,           \* the clock read by new Date() and by @updatedAt
  pc,            \* per slot: the await the request is suspended at
  req,           \* per slot: the request being handled
  loc,           \* per slot: the handler's local variables
  resp,          \* per slot: the response sent
  mwOptions,     \* createAuthMiddleware parameter: the options
  mwPc,          \* the middleware: the await it is suspended at
  mwReq,         \* the middleware: the request it is looking at
  mwResp         \* the middleware: what it returned

\* the middleware runs in front of the routes: no handler touches its state
mware == <<mwOptions, mwPc, mwReq, mwResp>>
\* what the handlers are given and leave alone
cfg == <<adminEmails, customStages, corsEnabled, failing, limit, mware>>
db == <<users, projects, stages, nextId, now>>
vars == <<adminEmails, customStages, corsEnabled, failing, limit, users, connected,
          projects, stages, nextId, now, pc, req, loc, resp,
          mwOptions, mwPc, mwReq, mwResp>>

\* ------------------------------------------------------------- sessions
NoSession == [present |-> FALSE, hasUser |-> FALSE, id |-> Undef, email |-> Undef]
SessionNoUser == [present |-> TRUE, hasUser |-> FALSE, id |-> Undef, email |-> Undef]
\* the session callback copies token.id, which a token without id leaves undefined
SessionNoId == [present |-> TRUE, hasUser |-> TRUE, id |-> Undef, email |-> EmailOf("u2")]
SessionOf(u) == [present |-> TRUE, hasUser |-> TRUE, id |-> u, email |-> EmailOf(u)]

UnauthSessions == {NoSession, SessionNoUser}
UserSessions == {SessionOf(u) : u \in Users}

\* ------------------------------------------------------------- requests
EmptyBody ==
  [project_title |-> None, project_description |-> None, tags |-> None,
   user_id |-> None]

\* the two impersonation headers: x-admin-impersonating, x-impersonated-user-id
NoHeaders == [imp |-> Undef, target |-> Undef]
HeaderSets ==
  {NoHeaders, [imp |-> "true", target |-> Undef]}
  \cup {[imp |-> "true", target |-> u] : u \in Users}

\* POST bodies that exercise authorization: a valid title, any user_id
CreateBodiesAuth ==
  {[EmptyBody EXCEPT !.project_title = Some(DemoTitle), !.user_id = u] :
     u \in {None} \cup {Some(x) : x \in Users}}

\* POST bodies that exercise validation and the stored fields
CreateBodiesData ==
  {[EmptyBody EXCEPT !.project_title = t, !.user_id = u] :
     t \in {None, Some(EmptyTitle), Some(BlankTitle)}, u \in {None, Some("u1")}}
  \cup
  {[EmptyBody EXCEPT !.project_title = Some(DemoTitle),
                     !.project_description = Some(<<"d">>), !.tags = Some(DemoTags)],
   [EmptyBody EXCEPT !.project_title = Some(BlankTitle),
                     !.project_description = Some(Null), !.tags = Some(<<>>)]}

\* PUT bodies: nothing present, one field present, all fields present
UpdateBodies ==
  {EmptyBody}
  \cup {[EmptyBody EXCEPT !.project_title = Some(t)] : t \in {EmptyTitle, DemoTitle}}
  \cup {[EmptyBody EXCEPT !.project_description = Some(d)] : d \in {Null, <<"d">>}}
  \cup {[EmptyBody EXCEPT !.tags = Some(g)] : g \in {<<>>, DemoTags}}
  \cup {[project_title |-> Some(DemoTitle), project_description |-> Some(Null),
         tags |-> Some(<<>>), user_id |-> None],
        [project_title |-> Some(EmptyTitle), project_description |-> Some(<<"d">>),
         tags |-> Some(DemoTags), user_id |-> None]}

Request(e, m, s, h, i, b) ==
  [endpoint |-> e, method |-> m, session |-> s, headers |-> h, id |-> i, body |-> b]

\* requests without a session: every method of either endpoint, with and
\* without impersonation headers and a project id, and no body
UnauthRequests ==
  {Request("collection", m, s, h, None, EmptyBody) :
     m \in {"GET", "POST", "DELETE", "OPTIONS"}, s \in UnauthSessions,
     h \in {NoHeaders, [imp |-> "true", target |-> "u1"]}}
  \cup
  {Request("item", m, s, NoHeaders, i, EmptyBody) :
     m \in {"GET", "PUT", "DELETE", "POST", "OPTIONS"}, s \in UnauthSessions,
     i \in {None, Some(1)}}

\* requests to /projects
CollectionRequests ==
  {Request("collection", m, s, h, None, EmptyBody) :
     m \in {"GET", "DELETE", "OPTIONS"}, s \in UserSessions \cup {SessionNoId},
     h \in HeaderSets}
  \cup
  {Request("collection", "POST", s, h, None, b) :
     s \in UserSessions, h \in HeaderSets, b \in CreateBodiesAuth}
  \cup
  {Request("collection", "POST", s, NoHeaders, None, b) :
     s \in UserSessions, b \in CreateBodiesData}

\* requests to /projects/{id}: the ids are those of the rows the store may hold
\* and one it never holds; req.query.id may be absent; the impersonation
\* headers come with the methods the handler dispatches on
ItemRequests ==
  {Request("item", m, s, NoHeaders, Some(i), EmptyBody) :
     m \in {"GET", "PUT", "DELETE", "POST", "OPTIONS"},
     s \in UserSessions \cup {SessionNoId}, i \in 1..(MaxProjects + 1)}
  \cup
  {Request("item", m, SessionOf(u), [imp |-> "true", target |-> t], Some(i), EmptyBody) :
     m \in {"GET", "PUT", "DELETE"}, u \in Users, t \in Users,
     i \in 1..(MaxProjects + 1)}
  \cup
  {Request("item", "PUT", s, NoHeaders, Some(i), b) :
     s \in UserSessions, i \in 1..(MaxProjects + 1), b \in UpdateBodies}
  \cup
  {Request("item", "GET", s, NoHeaders, None, EmptyBody) : s \in UserSessions}

\* the body of a registration
RegisterBody(n, e, p) == [name |-> n, email |-> e, password |-> p]

\* POST bodies of /register: nothing given, one field invalid, every field
\* invalid, and valid ones for a new and for a taken email
RegisterBodies ==
  {RegisterBody(None, None, None),
   RegisterBody(Some(ShortName), Some(NewEmail), Some(PasswordA)),
   RegisterBody(Some(DemoName), Some(MalformedEmail), Some(PasswordA)),
   RegisterBody(Some(DemoName), Some(NewEmail), Some(ShortPassword)),
   RegisterBody(Some(ShortName), Some(MalformedEmail), Some(ShortPassword))}
  \cup
  {RegisterBody(Some(DemoName), Some(e), Some(p)) :
     e \in {NewEmail, AdminEmail}, p \in {PasswordA, PasswordB}}

\* requests to /register (the handler reads no session and no header)
RegisterRequests ==
  {Request("register", "POST", NoSession, NoHeaders, None, b) : b \in RegisterBodies}
  \cup
  {Request("register", m, NoSession, NoHeaders, None, RegisterBody(None, None, None)) :
     m \in {"GET", "DELETE", "OPTIONS"}}

Requests ==
  UnauthRequests \cup CollectionRequests \cup ItemRequests \cup RegisterRequests

NoRequest == Request("none", "none", NoSession, NoHeaders, None, EmptyBody)

\* ------------------------------------------------------------ responses
NoBody ==
  [message |-> Undef, project |-> None, projects |-> None, error |-> Undef,
   user |-> None]
NoResponse == [status |-> 0, cors |-> FALSE, body |-> NoBody]

\* res.status(status).json({ message })
Message(status, msg) ==
  [status |-> status, cors |-> corsEnabled, body |-> [NoBody EXCEPT !.message = msg]]

\* ---------------------------------------------------------------- locals
\* project: the row the ownership lookup found; result: what registerUser
\* returned; ncalls: the storage calls made so far
NoLocals ==
  [userId |-> Undef, data |-> EmptyBody, newProject |-> None, project |-> None,
   result |-> None, i |-> 0, ncalls |-> 0]

\* ------------------------------------------------------------ middleware
\* path names are character sequences (startsWith looks at characters)
RootPath == <<"/">>
AuthPath == <<"/", "a", "u", "t", "h">>
LoginPath == <<"/", "a", "u", "t", "h", "/", "l", "o", "g", "i", "n">>
DashboardPath == <<"/", "d", "a", "s", "h", "b", "o", "a", "r", "d">>
DashPath == <<"/", "d", "a", "s", "h">>
ProfilePath == <<"/", "p", "r", "o", "f", "i", "l", "e">>
ApiProtectedPath == <<"/", "a", "p", "i", "/", "p", "r", "o", "t", "e", "c", "t", "e", "d">>
ApiProjectsPath == <<"/", "a", "p", "i", "/", "p", "r", "o", "j", "e", "c", "t", "s">>
ApiPublicPath == <<"/", "a", "p", "i", "/", "p", "u", "b", "l", "i", "c">>
ApiPrefix == <<"/", "a", "p", "i", "/">>
AboutPath == <<"/", "a", "b", "o", "u", "t">>

\* the options of createAuthMiddleware
Options(protected, public, cors) ==
  [protectedPaths |-> protected, publicPaths |-> public, loginPath |-> LoginPath,
   corsEnabled |-> cors]

\* createAuthMiddleware(): every option at its default
DefaultOptions == Options(<<>>, <<>>, FALSE)

\* the example of authMiddleware.ts and the one of the README
ExampleOptions ==
  Options(<<DashboardPath, ProfilePath, ApiProtectedPath>>,
          <<ApiPublicPath, AuthPath, RootPath>>, TRUE)

ReadmeOptions ==
  Options(<<DashboardPath, ProfilePath, ApiProtectedPath, ApiProjectsPath>>,
          <<ApiPublicPath, AuthPath, RootPath>>, TRUE)

\* the configurations: the defaults, the two documented examples, the example
\* without "/" among the public paths, public paths only, and a public path
\* that is a prefix of a protected one
MiddlewareConfigurations ==
  {DefaultOptions, ExampleOptions, ReadmeOptions,
   Options(<<DashboardPath, ProfilePath, ApiProtectedPath>>,
           <<ApiPublicPath, AuthPath>>, TRUE),
   Options(<<>>, <<ApiPublicPath, AuthPath>>, FALSE),
   Options(<<DashboardPath>>, <<DashPath>>, FALSE)}

\* request.nextUrl.pathname of the requests
Pathnames ==
  {RootPath, DashboardPath, DashboardPath \o <<"/", "s", "e", "t", "t", "i", "n", "g", "s">>, ProfilePath,
   ApiProtectedPath \o <<"/", "x">>, ApiProjectsPath, ApiPublicPath \o <<"/", "x">>,
   LoginPath, AboutPath, DashboardPath \o <<"s">>, ApiPrefix \o <<"o", "t", "h", "e", "r">>}

Origin == "https://app.example.com"

\* a request as the middleware sees it; token is what getToken resolves to
MwRequest(pathname, token) == [origin |-> Origin, pathname |-> pathname, token |-> token]

MwRequests == {MwRequest(p, t) : p \in Pathnames, t \in {None, Some("jwt")}}

NoMwRequest == MwRequest(<<>>, None)

\* request.url
Url(q) == <<q.origin>> \o q.pathname

\* what the middleware returns: NextResponse.next() or NextResponse.redirect
NoLocation == [url |-> <<>>, callbackUrl |-> <<>>]
NoMwResponse == [kind |-> "none", cors |-> FALSE, location |-> NoLocation]

\* String.prototype.startsWith
StartsWith(s, prefix) ==
  Len(prefix) <= Len(s) /\ SubSeq(s, 1, Len(prefix)) = prefix

\* paths.some(path => pathname.startsWith(path))
SomeStartsWith(paths, pathname) ==
  \E k \in 1..Len(paths) : StartsWith(pathname, paths[k])

\* protectedPaths.length === 0 || protectedPaths.some(...)
IsProtectedPath(o, pathname) ==
  Len(o.protectedPaths) = 0 \/ SomeStartsWith(o.protectedPaths, pathname)

\* NextResponse.next(), with the CORS headers for an API route when enabled
PassedOn(o, pathname) ==
  [kind |-> "next", cors |-> o.corsEnabled /\ StartsWith(pathname, ApiPrefix),
   location |-> NoLocation]

\* NextResponse.redirect(signInUrl): new URL(loginPath, request.url) with the
\* search parameter callbackUrl
Redirected(o, q) ==
  [kind |-> "redirect", cors |-> FALSE,
   location |-> [url |-> <<q.origin>> \o o.loginPath, callbackUrl |-> Url(q)]]

\* the middleware from its first line to getToken: where it suspends (or
\* ends) and what it has returned
MiddlewareEntry(o, q) ==
  IF SomeStartsWith(o.publicPaths, q.pathname)
  THEN [pc |-> "done", resp |-> PassedOn(o, q.pathname)]
  ELSE IF ~IsProtectedPath(o, q.pathname)
  THEN [pc |-> "done",
        resp |-> [kind |-> "next", cors |-> FALSE, location |-> NoLocation]]
  ELSE [pc |-> "getToken", resp |-> NoMwResponse]

\* ------------------------------------------------------------------ init
\* the deployments: the default export (no admins, default stages, no CORS),
\* a customised route (an admin, custom stages that name a stage twice, CORS)
\* and two mixtures, each over a store without faults and over stores whose
\* k-th call of a request throws
CustomStages == <<"Planning", "Ideation", "Planning">>

Deployments ==
  {[adminEmails |-> <<>>, customStages |-> <<>>, corsEnabled |-> FALSE],
   [adminEmails |-> <<AdminEmail>>, customStages |-> CustomStages, corsEnabled |-> TRUE],
   [adminEmails |-> <<AdminEmail>>, customStages |-> <<>>, corsEnabled |-> FALSE],
   [adminEmails |-> <<>>, customStages |-> CustomStages, corsEnabled |-> TRUE]}

FaultPlans == {{}, {1}, {2}, {3, 4}}

\* bcrypt.hash(password, 10): the digest is not the password
Hash(p) == <<"$2a$10$">> \o p

\* a row of the User table (password is NULL for an OAuth identity)
UserRow(id, name, email, password, provider, t) ==
  [id |-> id, name |-> name, email |-> email, password |-> password,
   oauth_provider |-> provider, updated_at |-> t]

\* the identities the sessions belong to: u1 registered by email, u2 by OAuth
BaseUsers ==
  {UserRow("u1", DemoName, EmailOf("u1"), Hash(PasswordA), "email", 0),
   UserRow("u2", DemoName, EmailOf("u2"), Null, "google", 0)}

\* the middleware made with options o, before its first request
MiddlewareStarted(o) ==
  /\ mwOptions = o
  /\ mwPc = "idle"
  /\ mwReq = NoMwRequest
  /\ mwResp = NoMwResponse

\* the state of the store, of the slots and of the middleware (made with the
\* default options) when the server starts
Started ==
  /\ MiddlewareStarted(DefaultOptions)
  /\ users = BaseUsers
  /\ connected = [c \in Clients |-> FALSE]
  /\ projects = {}
  /\ stages = {}
  /\ nextId = 1
  /\ now = 0
  /\ pc = [r \in Slots |-> "idle"]
  /\ req = [r \in Slots |-> NoRequest]
  /\ loc = [r \in Slots |-> NoLocals]
  /\ resp = [r \in Slots |-> NoResponse]

Init ==
  /\ \E c \in Deployments :
       /\ adminEmails = c.adminEmails
       /\ customStages = c.customStages
       /\ corsEnabled = c.corsEnabled
  /\ failing \in FaultPlans
  /\ limit = [projects |-> MaxProjects, clock |-> MaxClock]
  /\ Started

\* ------------------------------------------------------- pure helpers
\* Array.prototype.includes
Includes(seq, x) == \E k \in 1..Len(seq) : seq[k] = x

\* session.user?.email || ''
EmailOrEmpty(s) == IF s.email = Undef THEN "" ELSE s.email

\* mutant: the user of the session is not checked
HasSessionObject(q) == q.session.present

\* !(!session || !session.user)
HasSession(q) == q.session.present /\ q.session.hasUser

\* mutant: OPTIONS is answered as a preflight whatever corsEnabled is
IsPreflightAlways(q) == q.method = "OPTIONS"

\* corsEnabled && req.method === 'OPTIONS'
IsPreflight(q) == corsEnabled /\ q.method = "OPTIONS"

\* req.headers['x-admin-impersonating'] === 'true'
IsAdminImpersonating(q) == q.headers.imp = "true"

\* the condition that guards the impersonation check
ImpersonationChecked(q) ==
  /\ IsAdminImpersonating(q)
  /\ q.headers.target # Undef
  /\ Len(adminEmails) > 0

\* adminEmails.includes(session.user?.email || '')
CallerIsAdmin(q) == Includes(adminEmails, EmailOrEmpty(q.session))

\* the request is refused by the impersonation check
GateDenied(q) == ImpersonationChecked(q) /\ ~CallerIsAdmin(q)

\* mutant: the impersonation target is never taken
GateUserIdOwn(q) == q.session.id

\* userId after the impersonation check
GateUserId(q) ==
  IF ImpersonationChecked(q) /\ CallerIsAdmin(q) THEN q.headers.target
  ELSE q.session.id

\* createProjectSchema.parse: the first error's message, Undef when valid
CreateSchemaError(b) ==
  IF b.project_title = None THEN "Required"
  ELSE IF Len(b.project_title[1]) < 1 THEN "Project title is required"
  ELSE Undef

\* createProjectSchema.parse: the validated data (tags default to [])
CreateSchemaData(b) ==
  [b EXCEPT !.tags = IF b.tags = None THEN Some(<<>>) ELSE b.tags]

\* updateProjectSchema.parse: the first error's message, Undef when valid
UpdateSchemaError(b) ==
  IF b.project_title # None /\ Len(b.project_title[1]) < 1
  THEN "Project title is required"
  ELSE Undef

\* the condition that guards the check of a user_id given in the body
BodyUserChecked(data, userId) ==
  /\ data.user_id # None
  /\ data.user_id[1] # userId
  /\ Len(adminEmails) > 0

\* mutant: the body's user_id is taken whenever it is given
CreateUserIdBody(data, userId) ==
  IF data.user_id # None THEN data.user_id[1] ELSE userId

\* userId after the check of the body's user_id
CreateUserId(data, userId) ==
  IF BodyUserChecked(data, userId) THEN data.user_id[1] ELSE userId

\* mutant: the custom stage list is ignored
StageListDefault == DefaultStages

\* customStages.length > 0 ? customStages : the eight defaults
StageList == IF Len(customStages) > 0 THEN customStages ELSE DefaultStages

\* ------------------------------------------------------------ the store
\* the storage call that slot r makes next throws
Throws(r) == (loc[r].ncalls + 1) \in failing

\* prisma.project.create: the row inserted (an undefined description is NULL)
NewProjectRow(id, userId, data, t) ==
  [id |-> id,
   user_id |-> userId,
   project_title |-> data.project_title[1],
   project_description |->
     IF data.project_description = None THEN Null ELSE data.project_description[1],
   tags |-> data.tags[1],
   updated_at |-> t]

\* mutant: the stage is attached to the project created last
NewStageRowLatest(projectId, i, name) ==
  [id |-> <<projectId, i>>, project_id |-> nextId - 1, stage_name |-> name,
   user_inputs |-> EmptyDoc, ai_outputs |-> EmptyDoc, finalized |-> FALSE]

\* prisma.projectStage.create: the row inserted; its generated id is modelled
\* by the project and the turn of the loop that inserts it
NewStageRow(projectId, i, name) ==
  [id |-> <<projectId, i>>, project_id |-> projectId, stage_name |-> name,
   user_inputs |-> EmptyDoc, ai_outputs |-> EmptyDoc, finalized |-> FALSE]

\* mutant: the table has no relation to Project
StageInsertRejectedByIndex(row) ==
  \E s \in stages : s.project_id = row.project_id /\ s.stage_name = row.stage_name

\* mutant: the table has no unique index on (project_id, stage_name)
StageInsertRejectedByRelation(row) ==
  ~\E p \in projects : p.id = row.project_id

\* @@unique([project_id, stage_name]) and the relation to Project
StageInsertRejected(row) ==
  \/ \E s \in stages : s.project_id = row.project_id /\ s.stage_name = row.stage_name
  \/ ~\E p \in projects : p.id = row.project_id

\* mutant: a throw in the stage loop rolls the project's stages back
StagesAfterInsertAtomic(r, row) ==
  IF Throws(r) THEN {s \in stages : s.project_id # row.project_id}
  ELSE IF StageInsertRejected(row) THEN stages
  ELSE stages \cup {row}

\* the table after the stage loop's create for slot r: the catch block of the
\* loop swallows a throw and the loop goes on
StagesAfterInsert(r, row) ==
  IF Throws(r) \/ StageInsertRejected(row) THEN stages ELSE stages \cup {row}

\* the sequences that hold every element of S once
Arrangements(S) ==
  {s \in [1..Cardinality(S) -> S] : \A a, b \in 1..Cardinality(S) : a # b => s[a] # s[b]}

\* mutant: findMany without orderBy
FindManyUnordered(userId) == Arrangements({p \in projects : p.user_id = userId})

\* findMany({where: {user_id}, orderBy: {updated_at: "desc"}}): the results the
\* store may return (rows with equal updated_at come in any order)
FindManyResults(userId) ==
  LET owned == {p \in projects : p.user_id = userId} IN
  {s \in Arrangements(owned) :
     \A a, b \in 1..Len(s) : a < b => s[a].updated_at >= s[b].updated_at}

\* mutant: the ownership lookup filters by id alone
FindFirstAnyOwner(id, userId) == {p \in projects : p.id = id}

\* findFirst({where: {id, user_id}}): Prisma leaves a filter whose value is
\* undefined out of the query
FindFirst(id, userId) ==
  {p \in projects : p.id = id /\ (userId = Undef \/ p.user_id = userId)}

\* where: { id }
ById(id) == {p \in projects : p.id = id}

\* the position of a stage name in the StageName enum
Rank(name) == CHOOSE k \in 1..Len(DefaultStages) : DefaultStages[k] = name

\* the elements of a set, one after the other
RECURSIVE SeqOfSet(_)
SeqOfSet(S) ==
  IF S = {} THEN <<>>
  ELSE LET x == CHOOSE y \in S : TRUE IN <<x>> \o SeqOfSet(S \ {x})

\* include: {stages: {orderBy: {stage_name: "asc"}}}: the stages of a project,
\* an enum column sorting by the position in the enum
StagesOf(id) ==
  LET F[k \in 0..Len(DefaultStages)] ==
        IF k = 0 THEN <<>>
        ELSE F[k - 1] \o SeqOfSet({t \in stages : t.project_id = id /\ Rank(t.stage_name) = k})
  IN F[Len(DefaultStages)]

\* mutant: the stages of a deleted project are left in the table
StagesKept(id) == stages

\* deleteMany({ where: { project_id: id } }), and onDelete: Cascade
StagesWithout(id) == {s \in stages : s.project_id # id}

\* mutant: the fields the body does not give are written with their defaults
PatchWhole(row, data, t) ==
  [row EXCEPT
     !.project_title =
        IF data.project_title # None /\ Len(data.project_title[1]) > 0
        THEN data.project_title[1] ELSE @,
     !.project_description =
        IF data.project_description # None THEN data.project_description[1] ELSE Null,
     !.tags = IF data.tags # None THEN data.tags[1] ELSE <<>>,
     !.updated_at = t]

\* mutant: the description is patched only when it is truthy
PatchTruthy(row, data, t) ==
  [row EXCEPT
     !.project_title =
        IF data.project_title # None /\ Len(data.project_title[1]) > 0
        THEN data.project_title[1] ELSE @,
     !.project_description =
        IF data.project_description # None /\ data.project_description[1] # Null
        THEN data.project_description[1] ELSE @,
     !.tags = IF data.tags # None THEN data.tags[1] ELSE @,
     !.updated_at = t]

\* the data of prisma.project.update: the fields of the body that are given
Patch(row, data, t) ==
  [row EXCEPT
     !.project_title =
        IF data.project_title # None /\ Len(data.project_title[1]) > 0
        THEN data.project_title[1] ELSE @,
     !.project_description =
        IF data.project_description # None THEN data.project_description[1] ELSE @,
     !.tags = IF data.tags # None THEN data.tags[1] ELSE @,
     !.updated_at = t]

\* ------------------------------------------------------------ responses
Preflight == [status |-> 200, cors |-> TRUE, body |-> NoBody]

\* the 500 of projectHandler carries the error's message
CollectionFailure ==
  [status |-> 500, cors |-> corsEnabled,
   body |-> [NoBody EXCEPT !.message = "Internal server error",
                           !.error = "storage fault"]]

\* the 500 of projectDetailHandler
ItemFailure == Message(500, "Internal server error")

NotFound == Message(404, "Project not found")

\* res.status(status).json({ message, project })
WithProject(status, msg, value) ==
  [status |-> status, cors |-> corsEnabled,
   body |-> [NoBody EXCEPT !.message = msg, !.project = Some(value)]]

\* ------------------------------------------------- projectHandler, entry
\* a handler from its first line to its first storage call: where it suspends
\* (or ends), the response it has sent, and its locals
Outcome(next, response, userId, data) ==
  [pc |-> next, resp |-> response, userId |-> userId, data |-> data]

\* mutant: the 403 for a body's user_id is sent and the handler goes on
CollectionDispatchNoReturn(q, userId) ==
  IF q.method = "GET" THEN Outcome("findMany", NoResponse, userId, EmptyBody)
  ELSE IF q.method = "POST" THEN
    IF CreateSchemaError(q.body) # Undef
    THEN Outcome("finally", Message(400, CreateSchemaError(q.body)), userId, EmptyBody)
    ELSE LET data == CreateSchemaData(q.body) IN
      IF BodyUserChecked(data, userId) /\ ~CallerIsAdmin(q)
      THEN Outcome("createProject",
                   Message(403, "Not authorized to create projects for other users"),
                   userId, data)
      ELSE Outcome("createProject", NoResponse, CreateUserId(data, userId), data)
  ELSE Outcome("finally", Message(405, "Method not allowed"), userId, EmptyBody)

\* projectHandler: the method dispatch up to the first storage call
CollectionDispatch(q, userId) ==
  IF q.method = "GET" THEN Outcome("findMany", NoResponse, userId, EmptyBody)
  ELSE IF q.method = "POST" THEN
    IF CreateSchemaError(q.body) # Undef
    THEN Outcome("finally", Message(400, CreateSchemaError(q.body)), userId, EmptyBody)
    ELSE LET data == CreateSchemaData(q.body) IN
      IF BodyUserChecked(data, userId) /\ ~CallerIsAdmin(q)
      THEN Outcome("finally",
                   Message(403, "Not authorized to create projects for other users"),
                   userId, data)
      ELSE Outcome("createProject", NoResponse, CreateUserId(data, userId), data)
  ELSE Outcome("finally", Message(405, "Method not allowed"), userId, EmptyBody)

\* projectHandler: CORS, session, user id, impersonation, dispatch
CollectionEntry(q) ==
  IF IsPreflight(q) THEN Outcome("done", Preflight, Undef, EmptyBody)
  ELSE IF ~HasSession(q)
  THEN Outcome("done", Message(401, "Unauthorized - No valid session"), Undef, EmptyBody)
  ELSE IF q.session.id = Undef
  THEN Outcome("done", Message(401, "Unauthorized - Missing user ID"), Undef, EmptyBody)
  ELSE IF GateDenied(q)
  THEN Outcome("done", Message(403, "Not authorized to impersonate users"),
               q.session.id, EmptyBody)
  ELSE CollectionDispatch(q, GateUserId(q))

\* mutant: the method and the body are looked at before the ownership lookup
ItemEntryMethodFirst(q) ==
  IF IsPreflight(q) THEN Outcome("done", Preflight, Undef, EmptyBody)
  ELSE IF ~HasSession(q)
  THEN Outcome("done", Message(401, "Unauthorized"), Undef, EmptyBody)
  ELSE IF q.id = None
  THEN Outcome("done", Message(400, "Invalid project ID"), Undef, EmptyBody)
  ELSE IF q.method \notin {"GET", "PUT", "DELETE"}
  THEN Outcome("done", Message(405, "Method not allowed"), q.session.id, EmptyBody)
  ELSE IF q.method = "PUT" /\ UpdateSchemaError(q.body) # Undef
  THEN Outcome("done", Message(400, UpdateSchemaError(q.body)), q.session.id, EmptyBody)
  ELSE Outcome("findFirst", NoResponse, q.session.id, EmptyBody)

\* projectDetailHandler: CORS, session, id
ItemEntry(q) ==
  IF IsPreflight(q) THEN Outcome("done", Preflight, Undef, EmptyBody)
  ELSE IF ~HasSession(q)
  THEN Outcome("done", Message(401, "Unauthorized"), Undef, EmptyBody)
  ELSE IF q.id = None
  THEN Outcome("done", Message(400, "Invalid project ID"), Undef, EmptyBody)
  ELSE Outcome("findFirst", NoResponse, q.session.id, EmptyBody)

\* mutant: a method that is not GET or PUT is taken for DELETE
ItemDispatchElseDelete(q) ==
  IF q.method = "GET" THEN Outcome("findUnique", NoResponse, q.session.id, EmptyBody)
  ELSE IF q.method = "PUT" THEN
    IF UpdateSchemaError(q.body) # Undef
    THEN Outcome("finally", Message(400, UpdateSchemaError(q.body)), q.session.id, EmptyBody)
    ELSE Outcome("update", NoResponse, q.session.id, q.body)
  ELSE Outcome("deleteMany", NoResponse, q.session.id, EmptyBody)

\* projectDetailHandler: what follows a successful ownership lookup
ItemDispatch(q) ==
  IF q.method = "GET" THEN Outcome("findUnique", NoResponse, q.session.id, EmptyBody)
  ELSE IF q.method = "PUT" THEN
    IF UpdateSchemaError(q.body) # Undef
    THEN Outcome("finally", Message(400, UpdateSchemaError(q.body)), q.session.id, EmptyBody)
    ELSE Outcome("update", NoResponse, q.session.id, q.body)
  ELSE IF q.method = "DELETE"
  THEN Outcome("deleteMany", NoResponse, q.session.id, EmptyBody)
  ELSE Outcome("finally", Message(405, "Method not allowed"), q.session.id, EmptyBody)

\* ----------------------------------------------------------- registration
\* z.string().email(): the addresses of the model that are well formed
IsEmail(e) == e \in {NewEmail, AdminEmail, EmailOf("u2")}

\* registerSchema.parse: the first error's message, Undef when valid
RegisterSchemaError(b) ==
  IF b.name = None THEN "Required"
  ELSE IF Len(b.name[1]) < 2 THEN "Name must be at least 2 characters"
  ELSE IF b.email = None THEN "Required"
  ELSE IF ~IsEmail(b.email[1]) THEN "Invalid email address"
  ELSE IF b.password = None THEN "Required"
  ELSE IF Len(b.password[1]) < 8 THEN "Password must be at least 8 characters"
  ELSE Undef

\* mutant: the lookup by email finds nothing
FindUserNever(email) == {}

\* prisma.user.findUnique({ where: { email } })
FindUserByEmail(email) == {u \in users : u.email = email}

\* @default(uuid()): an id no row has (one address is new, so one id is enough)
NewUserId == "u3"

\* prisma.user.create: the row inserted by registerUser, stamped by @updatedAt
NewUserRow(data, t) ==
  UserRow(NewUserId, data.name[1], data.email[1], Hash(data.password[1]), "email", t)

\* mutant: the row is returned as it is stored
WithPassword(row) == row

\* const { password: _, ...userWithoutPassword } = newUser
WithoutPassword(row) == [f \in DOMAIN row \ {"password"} |-> row[f]]

\* what registerUser returns
RegisterResult(success, message, status, user) ==
  [success |-> success, message |-> message, status |-> status, user |-> user]

AlreadyExists == RegisterResult(FALSE, "User already exists", 400, None)

Registered(row) ==
  RegisterResult(TRUE, "User registered successfully", 201, Some(WithoutPassword(row)))

RegisterFailure == RegisterResult(FALSE, "Internal server error", 500, None)

\* the registration handler: res.status(...).json({ message })
RegisterMessage(status, msg) ==
  [status |-> status, cors |-> FALSE, body |-> [NoBody EXCEPT !.message = msg]]

\* the registration handler: the response made of registerUser's result
RegisterResponse(result) ==
  [status |-> result.status, cors |-> FALSE,
   body |-> [NoBody EXCEPT !.message = result.message,
                           !.user = IF result.success THEN result.user ELSE None]]

\* the registration handler: the method check and the body parse
RegisterEntry(q) ==
  IF q.method # "POST"
  THEN Outcome("done", RegisterMessage(405, "Method not allowed"), Undef, q.body)
  ELSE IF RegisterSchemaError(q.body) # Undef
  THEN Outcome("finally", RegisterMessage(400, RegisterSchemaError(q.body)), Undef, q.body)
  ELSE Outcome("regFind", NoResponse, Undef, q.body)

\* -------------------------------------------------------------- actions
\* the handler of slot r goes on to o.pc, having sent o.resp
Goto(r, o) ==
  /\ pc' = [pc EXCEPT ![r] = o.pc]
  /\ resp' = [resp EXCEPT ![r] = o.resp]

\* slot r has made one more storage call
Called(r) == loc' = [loc EXCEPT ![r].ncalls = @ + 1]

\* a storage call of slot r: the route's client connects when it has to
Connect(r) == connected' = [connected EXCEPT ![req[r].endpoint] = TRUE]

\* mutant: the catch block answers and the handler returns past the finally
CaughtNoFinally(r, response) ==
  /\ Goto(r, [pc |-> "done", resp |-> response])
  /\ Called(r)

\* a storage call of slot r threw: the catch block answers
Caught(r, response) ==
  /\ Goto(r, [pc |-> "finally", resp |-> response])
  /\ Called(r)

\* a request of Q arrives at projectHandler and runs to its first storage call
ArriveCollection(r, Q) ==
  /\ pc[r] = "idle"
  /\ \E q \in Q :
       /\ q.method = "POST" => nextId <= limit.projects /\ now < limit.clock
       /\ req' = [req EXCEPT ![r] = q]
       /\ Goto(r, CollectionEntry(q))
       /\ loc' = [loc EXCEPT ![r] = [NoLocals EXCEPT !.userId = CollectionEntry(q).userId,
                                                     !.data = CollectionEntry(q).data]]
  /\ UNCHANGED <<cfg, db, connected>>

\* the requests of the one-at-a-time workload that go to /projects
CollectionArrivals ==
  CollectionRequests \cup {u \in UnauthRequests : u.endpoint = "collection"}

BeginCollection(r) == ArriveCollection(r, CollectionArrivals)

\* a request of Q arrives at projectDetailHandler and runs to its first
\* storage call
ArriveItem(r, Q) ==
  /\ pc[r] = "idle"
  /\ \E q \in Q :
       /\ q.method = "PUT" => now < limit.clock
       /\ req' = [req EXCEPT ![r] = q]
       /\ Goto(r, ItemEntry(q))
       /\ loc' = [loc EXCEPT ![r] = [NoLocals EXCEPT !.userId = ItemEntry(q).userId]]
  /\ UNCHANGED <<cfg, db, connected>>

\* the requests of the one-at-a-time workload that go to /projects/{id}
ItemArrivals == ItemRequests \cup {u \in UnauthRequests : u.endpoint = "item"}

BeginItem(r) == ArriveItem(r, ItemArrivals)

\* GET /projects: prisma.project.findMany, then the 200
FindMany(r) ==
  /\ pc[r] = "findMany"
  /\ IF Throws(r) THEN Caught(r, CollectionFailure)
     ELSE \E list \in FindManyResults(loc[r].userId) :
            /\ Goto(r, [pc |-> "finally",
                        resp |-> [status |-> 200, cors |-> corsEnabled,
                                  body |-> [NoBody EXCEPT !.projects = Some(list)]]])
            /\ Called(r)
  /\ Connect(r)
  /\ UNCHANGED <<cfg, db, req>>

\* POST /projects: prisma.project.create
CreateProject(r) ==
  /\ pc[r] = "createProject"
  /\ IF Throws(r) THEN Caught(r, CollectionFailure) /\ UNCHANGED db
     ELSE /\ nextId <= limit.projects
          /\ now < limit.clock
          /\ LET row == NewProjectRow(nextId, loc[r].userId, loc[r].data, now + 1) IN
               /\ projects' = projects \cup {row}
               /\ loc' = [loc EXCEPT ![r].newProject = Some(row), ![r].i = 1,
                                     ![r].ncalls = @ + 1]
          /\ nextId' = nextId + 1
          /\ now' = now + 1
          /\ pc' = [pc EXCEPT ![r] = "createStage"]
          /\ UNCHANGED <<resp, stages, users>>
  /\ Connect(r)
  /\ UNCHANGED <<cfg, req>>

\* POST /projects: one turn of the stage loop, prisma.projectStage.create in
\* its own try/catch; after the last turn the 201
CreateStage(r) ==
  /\ pc[r] = "createStage"
  /\ LET i == loc[r].i
         row == NewStageRow(loc[r].newProject[1].id, i, StageList[i])
     IN /\ stages' = StagesAfterInsert(r, row)
        /\ loc' = [loc EXCEPT ![r].i = i + 1, ![r].ncalls = @ + 1]
        /\ IF i = Len(StageList)
           THEN Goto(r, [pc |-> "finally",
                         resp |-> WithProject(201, "Project created successfully",
                                              loc[r].newProject[1])])
           ELSE UNCHANGED <<resp, pc>>
  /\ Connect(r)
  /\ UNCHANGED <<cfg, users, projects, nextId, now, req>>

\* /projects/{id}: the ownership lookup prisma.project.findFirst, then the
\* method dispatch up to the next storage call
FindFirstStep(r) ==
  /\ pc[r] = "findFirst"
  /\ IF Throws(r) THEN Caught(r, ItemFailure)
     ELSE IF FindFirst(req[r].id[1], loc[r].userId) = {}
     THEN Caught(r, NotFound)
     ELSE /\ Goto(r, ItemDispatch(req[r]))
          /\ \E p \in FindFirst(req[r].id[1], loc[r].userId) :
               loc' = [loc EXCEPT ![r].ncalls = @ + 1,
                                  ![r].data = ItemDispatch(req[r]).data,
                                  ![r].project = Some(p)]
  /\ Connect(r)
  /\ UNCHANGED <<cfg, db, req>>

\* GET /projects/{id}: prisma.project.findUnique with the stages included
FindUnique(r) ==
  /\ pc[r] = "findUnique"
  /\ IF Throws(r) THEN Caught(r, ItemFailure)
     ELSE /\ Called(r)
          /\ LET id == req[r].id[1] IN
             IF ById(id) = {}
             THEN Goto(r, [pc |-> "finally", resp |-> WithProject(200, Undef, Null)])
             ELSE \E p \in ById(id) :
                    Goto(r, [pc |-> "finally",
                             resp |-> WithProject(200, Undef,
                                        Some([row |-> p, stages |-> StagesOf(id)]))])
  /\ Connect(r)
  /\ UNCHANGED <<cfg, db, req>>

\* PUT /projects/{id}: prisma.project.update (throws when the row is gone)
Update(r) ==
  /\ pc[r] = "update"
  /\ IF Throws(r) \/ ById(req[r].id[1]) = {}
     THEN Caught(r, ItemFailure) /\ UNCHANGED db
     ELSE /\ now < limit.clock
          /\ \E p \in ById(req[r].id[1]) :
               LET row == Patch(p, loc[r].data, now + 1) IN
                 /\ projects' = (projects \ {p}) \cup {row}
                 /\ Goto(r, [pc |-> "finally",
                             resp |-> WithProject(200, "Project updated successfully", row)])
          /\ now' = now + 1
          /\ Called(r)
          /\ UNCHANGED <<users, stages, nextId>>
  /\ Connect(r)
  /\ UNCHANGED <<cfg, req>>

\* DELETE /projects/{id}: prisma.projectStage.deleteMany
DeleteMany(r) ==
  /\ pc[r] = "deleteMany"
  /\ IF Throws(r) THEN Caught(r, ItemFailure) /\ UNCHANGED db
     ELSE /\ stages' = StagesWithout(req[r].id[1])
          /\ pc' = [pc EXCEPT ![r] = "delete"]
          /\ Called(r)
          /\ UNCHANGED <<users, projects, nextId, now, resp>>
  /\ Connect(r)
  /\ UNCHANGED <<cfg, req>>

\* DELETE /projects/{id}: prisma.project.delete (throws when the row is gone;
\* the relation's onDelete: Cascade removes the stages left), then the 200
Delete(r) ==
  /\ pc[r] = "delete"
  /\ IF Throws(r) \/ ById(req[r].id[1]) = {}
     THEN Caught(r, ItemFailure) /\ UNCHANGED db
     ELSE /\ projects' = projects \ ById(req[r].id[1])
          /\ stages' = StagesWithout(req[r].id[1])
          /\ Goto(r, [pc |-> "finally",
                      resp |-> Message(200, "Project deleted successfully")])
          /\ Called(r)
          /\ UNCHANGED <<users, nextId, now>>
  /\ Connect(r)
  /\ UNCHANGED <<cfg, req>>

\* a request of Q arrives at the registration handler and runs to
\* registerUser's first storage call
ArriveRegister(r, Q) ==
  /\ pc[r] = "idle"
  /\ \E q \in Q :
       /\ q.method = "POST" => now < limit.clock
       /\ req' = [req EXCEPT ![r] = q]
       /\ Goto(r, RegisterEntry(q))
       /\ loc' = [loc EXCEPT ![r] = [NoLocals EXCEPT !.data = RegisterEntry(q).data]]
  /\ UNCHANGED <<cfg, db, connected>>

BeginRegister(r) == ArriveRegister(r, RegisterRequests)

\* registerUser returns result and the handler answers with it
Returned(r, result) ==
  /\ Goto(r, [pc |-> "finally", resp |-> RegisterResponse(result)])
  /\ loc' = [loc EXCEPT ![r].ncalls = @ + 1, ![r].result = Some(result)]

\* registerUser: prisma.user.findUnique by email
RegFindUnique(r) ==
  /\ pc[r] = "regFind"
  /\ IF Throws(r) THEN Returned(r, RegisterFailure)
     ELSE IF FindUserByEmail(loc[r].data.email[1]) # {} THEN Returned(r, AlreadyExists)
     ELSE /\ pc' = [pc EXCEPT ![r] = "regCreate"]
          /\ Called(r)
          /\ UNCHANGED resp
  /\ Connect(r)
  /\ UNCHANGED <<cfg, users, projects, stages, nextId, now, req>>

\* registerUser: bcrypt.hash, then prisma.user.create (email is @unique: the
\* insert throws when a row has the address)
RegCreate(r) ==
  /\ pc[r] = "regCreate"
  /\ IF Throws(r) \/ FindUserByEmail(loc[r].data.email[1]) # {}
     THEN Returned(r, RegisterFailure) /\ UNCHANGED <<users, now>>
     ELSE /\ now < limit.clock
          /\ users' = users \cup {NewUserRow(loc[r].data, now + 1)}
          /\ Returned(r, Registered(NewUserRow(loc[r].data, now + 1)))
          /\ now' = now + 1
  /\ Connect(r)
  /\ UNCHANGED <<cfg, projects, stages, nextId, req>>

\* finally: await prisma.$disconnect()
Finally(r) ==
  /\ pc[r] = "finally"
  /\ pc' = [pc EXCEPT ![r] = "done"]
  /\ connected' = [connected EXCEPT ![req[r].endpoint] = FALSE]
  /\ UNCHANGED <<cfg, db, req, loc, resp>>

\* the response has been delivered: the slot is free for the next request
Retire(r) ==
  /\ pc[r] = "done"
  /\ pc' = [pc EXCEPT ![r] = "idle"]
  /\ req' = [req EXCEPT ![r] = NoRequest]
  /\ loc' = [loc EXCEPT ![r] = NoLocals]
  /\ resp' = [resp EXCEPT ![r] = NoResponse]
  /\ UNCHANGED <<cfg, db, connected>>

Step(r) ==
  \/ BeginCollection(r)
  \/ BeginItem(r)
  \/ FindMany(r)
  \/ CreateProject(r)
  \/ CreateStage(r)
  \/ FindFirstStep(r)
  \/ FindUnique(r)
  \/ Update(r)
  \/ DeleteMany(r)
  \/ Delete(r)
  \/ BeginRegister(r)
  \/ RegFindUnique(r)
  \/ RegCreate(r)
  \/ Finally(r)
  \/ Retire(r)

\* one request at a time
Next == \E r \in SeqSlots : Step(r)

Spec == Init /\ [][Next]_vars

\* ------------------------------------------------- overlapping requests
\* the requests that overlap: CREATEs, a LIST, and UPDATEs of the projects
\* created that give different fields and the same field
ConcUpdateBodies ==
  {[EmptyBody EXCEPT !.project_description = Some(<<"d">>)],
   [EmptyBody EXCEPT !.tags = Some(DemoTags)],
   [EmptyBody EXCEPT !.project_title = Some(BlankTitle),
                     !.project_description = Some(Null)]}

ConcCollectionRequests ==
  {Request("collection", "GET", SessionOf("u1"), NoHeaders, None, EmptyBody)}
  \cup
  {Request("collection", "POST", SessionOf(u), NoHeaders, None,
           [EmptyBody EXCEPT !.project_title = Some(DemoTitle)]) : u \in Users}

ConcItemRequests ==
  {Request("item", "PUT", SessionOf("u1"), NoHeaders, Some(i), b) :
     i \in 1..ConcProjects, b \in ConcUpdateBodies}

\* the default route and one with custom stages, over a store without faults
ConcInit ==
  /\ adminEmails = <<>>
  /\ customStages \in {<<>>, CustomStages}
  /\ corsEnabled = FALSE
  /\ failing = {}
  /\ limit = [projects |-> ConcProjects, clock |-> ConcClock]
  /\ Started

ConcBeginCollection(r) == ArriveCollection(r, ConcCollectionRequests)

ConcBeginItem(r) == ArriveItem(r, ConcItemRequests)

ConcStep(r) ==
  \/ ConcBeginCollection(r)
  \/ ConcBeginItem(r)
  \/ FindMany(r)
  \/ CreateProject(r)
  \/ CreateStage(r)
  \/ FindFirstStep(r)
  \/ Update(r)
  \/ Finally(r)
  \/ Retire(r)

\* any request slot takes the next step: the handlers interleave at their
\* storage calls
ConcNext == \E r \in Slots : ConcStep(r)

ConcSpec == ConcInit /\ [][ConcNext]_vars

\* ------------------------------------ requests that overlap a DELETE
\* a CREATE, and READs and DELETEs of the projects created, all by u1; and
\* registrations of one new address with two passwords
RaceCollectionRequests ==
  {Request("collection", "POST", SessionOf("u1"), NoHeaders, None,
           [EmptyBody EXCEPT !.project_title = Some(DemoTitle)])}

RaceItemRequests ==
  {Request("item", m, SessionOf("u1"), NoHeaders, Some(i), EmptyBody) :
     m \in {"GET", "DELETE"}, i \in 1..RaceProjects}

RaceRegisterRequests ==
  {Request("register", "POST", NoSession, NoHeaders, None,
           RegisterBody(Some(DemoName), Some(NewEmail), Some(p))) :
     p \in {PasswordA, PasswordB}}

\* a route with custom stages over a store without faults
RaceInit ==
  /\ adminEmails = <<>>
  /\ customStages = CustomStages
  /\ corsEnabled = FALSE
  /\ failing = {}
  /\ limit = [projects |-> RaceProjects, clock |-> RaceClock]
  /\ Started

RaceBeginCollection(r) == ArriveCollection(r, RaceCollectionRequests)

RaceBeginItem(r) == ArriveItem(r, RaceItemRequests)

RaceBeginRegister(r) == ArriveRegister(r, RaceRegisterRequests)

RaceStep(r) ==
  \/ RaceBeginCollection(r)
  \/ RaceBeginItem(r)
  \/ RaceBeginRegister(r)
  \/ CreateProject(r)
  \/ CreateStage(r)
  \/ FindFirstStep(r)
  \/ FindUnique(r)
  \/ DeleteMany(r)
  \/ Delete(r)
  \/ RegFindUnique(r)
  \/ RegCreate(r)
  \/ Finally(r)
  \/ Retire(r)

\* any request slot takes the next step
RaceNext == \E r \in Slots : RaceStep(r)

RaceSpec == RaceInit /\ [][RaceNext]_vars

\* ----------------------------------------------------------- middleware
\* the routes behind the middleware: the default export, nothing in flight
RoutesIdle ==
  /\ adminEmails = <<>>
  /\ customStages = <<>>
  /\ corsEnabled = FALSE
  /\ failing = {}
  /\ limit = [projects |-> MaxProjects, clock |-> MaxClock]
  /\ users = BaseUsers
  /\ connected = [c \in Clients |-> FALSE]
  /\ projects = {}
  /\ stages = {}
  /\ nextId = 1
  /\ now = 0
  /\ pc = [r \in Slots |-> "idle"]
  /\ req = [r \in Slots |-> NoRequest]
  /\ loc = [r \in Slots |-> NoLocals]
  /\ resp = [r \in Slots |-> NoResponse]

routes ==
  <<adminEmails, customStages, corsEnabled, failing, limit, users, connected,
    projects, stages, nextId, now, pc, req, loc, resp>>

MiddlewareInit ==
  /\ RoutesIdle
  /\ \E o \in MiddlewareConfigurations : MiddlewareStarted(o)

\* a request arrives at the middleware, which runs to its await of getToken
MiddlewareBegin ==
  /\ mwPc = "idle"
  /\ \E q \in MwRequests :
       /\ mwReq' = q
       /\ mwPc' = MiddlewareEntry(mwOptions, q).pc
       /\ mwResp' = MiddlewareEntry(mwOptions, q).resp
  /\ UNCHANGED <<mwOptions, routes>>

\* getToken resolves: a redirect to the login page without a token, else
\* NextResponse.next()
GetToken ==
  /\ mwPc = "getToken"
  /\ mwPc' = "done"
  /\ mwResp' = IF mwReq.token = None THEN Redirected(mwOptions, mwReq)
               ELSE PassedOn(mwOptions, mwReq.pathname)
  /\ UNCHANGED <<mwOptions, mwReq, routes>>

\* the middleware has returned: the next request may come
MiddlewareRetire ==
  /\ mwPc = "done"
  /\ mwPc' = "idle"
  /\ mwReq' = NoMwRequest
  /\ mwResp' = NoMwResponse
  /\ UNCHANGED <<mwOptions, routes>>

MiddlewareNext == MiddlewareBegin \/ GetToken \/ MiddlewareRetire

MiddlewareSpec == MiddlewareInit /\ [][MiddlewareNext]_vars

\* ----------------------------------------------------------------- claims
\* slot r holds a request that is being handled or has been answered
Handled(r) == pc[r] # "idle"

\* slot r's request has been answered and its handler has returned
Answered(r) == pc[r] = "done"

\* the request comes with a session that names a user with an id
Identified(q) == q.session.present /\ q.session.hasUser /\ q.session.id # Undef

\* the caller's email is on the allow-list
Listed(q) == \E k \in 1..Len(adminEmails) : adminEmails[k] = q.session.email

\* the configured stage names: the caller-supplied list, else the defaults
Configured == IF customStages = <<>> THEN DefaultStages ELSE customStages

\* the rows of the ProjectStage table that belong to project id
StageRows(id) == {s \in stages : s.project_id = id}

\* ---- C1
\* slot r reads, updates or deletes by id as a user with an id
ItemAccess(r) ==
  /\ req[r].endpoint = "item"
  /\ req[r].method \in {"GET", "PUT", "DELETE"}
  /\ Identified(req[r])
  /\ req[r].id # None

OwnedByOther(r) ==
  \E p \in projects : p.id = req[r].id[1] /\ p.user_id # req[r].session.id

MatchesNothing(r) == \A p \in projects : p.id # req[r].id[1]

\* what a miss is answered with: 404, or 500 when the lookup itself throws
MissAnswer ==
  [status |-> IF 1 \in failing THEN 500 ELSE 404,
   cors |-> corsEnabled,
   body |-> [message |-> IF 1 \in failing THEN "Internal server error"
                         ELSE "Project not found",
             project |-> None, projects |-> None, error |-> Undef, user |-> None]]

\* C1: a READ, UPDATE or DELETE by user A of the id of a project owned by
\* another user B is answered at the ownership lookup with 404 "Project not
\* found" and no project data, exactly as for an id that matches no project
\* (500 for both when the lookup throws), and no step of such a request
\* changes the Project or ProjectStage table.
C1_ForeignProjectIsolated ==
  [][\A r \in Slots :
       /\ (ItemAccess(r) /\ pc[r] = "findFirst" /\ (OwnedByOther(r) \/ MatchesNothing(r)))
            => (pc'[r] = "finally" /\ resp'[r] = MissAnswer)
       /\ (ItemAccess(r) /\ OwnedByOther(r))
            => (projects' = projects /\ stages' = stages)
       /\ (pc[r] = "finally" => resp'[r] = resp[r])]_vars

C1_Witness ==
  /\ Answered(1) /\ ItemAccess(1) /\ OwnedByOther(1)
  /\ req[1].method = "PUT"
  /\ resp[1].status = 404

\* ---- C2
\* impersonation is requested on /projects by a caller who is not listed
NotAllowedToImpersonate(q) ==
  /\ q.endpoint = "collection"
  /\ Identified(q)
  /\ ~(corsEnabled /\ q.method = "OPTIONS")
  /\ q.headers.imp = "true"
  /\ ~Listed(q)

\* C2: on /projects, a request with x-admin-impersonating: true from a caller
\* whose email is not on the allow-list (also when the list is empty or the
\* target header is missing) is answered 403 and nothing is run for it.
C2_ImpersonationFailsClosed ==
  \A r \in Slots :
    Handled(r) /\ NotAllowedToImpersonate(req[r])
      => pc[r] = "done" /\ resp[r].status = 403

\* ---- C3
\* the cases C3 is about: no impersonation requested, or requested by a listed
\* caller with a target id
GateCase(q) ==
  /\ q.endpoint = "collection"
  /\ Identified(q)
  /\ \/ q.headers.imp # "true"
     \/ q.headers.target # Undef /\ Len(adminEmails) > 0 /\ Listed(q)

\* the effective user id of such a request
Effective(q) == IF q.headers.imp # "true" THEN q.session.id ELSE q.headers.target

\* the owner a listed caller asks for in the body, else the effective id
OwnerAsked(q) ==
  IF /\ q.body.user_id # None
     /\ q.body.user_id[1] # Effective(q)
     /\ Len(adminEmails) > 0
     /\ Listed(q)
  THEN q.body.user_id[1]
  ELSE Effective(q)

ListsExactly(r, owner) ==
  /\ resp[r].body.projects # None
  /\ LET list == resp[r].body.projects[1] IN
       {list[k] : k \in 1..Len(list)} = {p \in projects : p.user_id = owner}

CreatedFor(r, owner) ==
  /\ resp[r].body.project # None
  /\ resp[r].body.project[1].user_id = owner
  /\ resp[r].body.project[1] \in projects

\* C3 as stated: LIST returns, and CREATE inserts, projects owned by the
\* effective id and by no other id.
C3_Original ==
  \A r \in Slots :
    Answered(r) /\ GateCase(req[r]) =>
      /\ (req[r].method = "GET" /\ resp[r].status = 200
            => ListsExactly(r, Effective(req[r])))
      /\ (req[r].method = "POST" /\ resp[r].status = 201
            => CreatedFor(r, Effective(req[r])))

\* C3 (amended): the effective id is the session id without impersonation and
\* the target id for a listed caller; LIST returns exactly the projects owned
\* by it; CREATE inserts a project owned by it, unless the body carries a
\* different user_id and the caller is listed, when the project is owned by
\* the body's user_id.
C3_EffectiveUser ==
  \A r \in Slots :
    Answered(r) /\ GateCase(req[r]) =>
      /\ (req[r].method = "GET" /\ resp[r].status = 200
            => ListsExactly(r, Effective(req[r])))
      /\ (req[r].method = "POST" /\ resp[r].status = 201
            => CreatedFor(r, OwnerAsked(req[r])))

C3_Witness ==
  /\ Answered(1) /\ GateCase(req[1])
  /\ req[1].method = "POST" /\ resp[1].status = 201
  /\ req[1].session.id = "u1" /\ req[1].headers.target = "u2"
  /\ \E p \in projects : p.user_id = "u2"

\* ---- C4
\* a valid CREATE, without impersonation headers, for another user
CreateForOther(q) ==
  /\ q.endpoint = "collection" /\ q.method = "POST"
  /\ Identified(q)
  /\ q.headers.imp # "true"
  /\ q.body.project_title # None /\ Len(q.body.project_title[1]) > 0
  /\ q.body.user_id # None /\ q.body.user_id[1] # q.session.id

\* C4: a CREATE whose body names another user creates the project for that
\* user when the caller is on a non-empty allow-list, and otherwise is
\* answered 403 without creating a project.
C4_BodyUserFailsClosed ==
  \A r \in Slots :
    Handled(r) /\ CreateForOther(req[r]) =>
      IF Len(adminEmails) > 0 /\ Listed(req[r])
      THEN Answered(r) /\ resp[r].status = 201
             => CreatedFor(r, req[r].body.user_id[1])
      ELSE /\ pc[r] \notin {"createProject", "createStage"}
           /\ pc[r] \in {"finally", "done"} => resp[r].status = 403

\* ---- C5
\* a listed admin impersonates the owner of the project the request names
AdminActsForOwner(r) ==
  /\ req[r].endpoint = "item"
  /\ req[r].method \in {"GET", "PUT", "DELETE"}
  /\ Identified(req[r])
  /\ req[r].headers.imp = "true"
  /\ req[r].headers.target # Undef
  /\ req[r].headers.target # req[r].session.id
  /\ Len(adminEmails) > 0 /\ Listed(req[r])
  /\ req[r].id # None
  /\ \E p \in projects : p.id = req[r].id[1] /\ p.user_id = req[r].headers.target

\* C5: /projects/{id} is scoped to the effective user: a listed admin who
\* impersonates B is not refused B's project (the lookup finds it).
C5_ItemHonoursImpersonation ==
  \A r \in Slots :
    AdminActsForOwner(r) /\ pc[r] \in {"finally", "done"}
      => resp[r].status \in {200, 500}

\* ---- C6
\* C6: a request without a session (other than a CORS preflight) is answered
\* 401 on either endpoint before any storage call is made.
C6_AuthenticationFirst ==
  \A r \in Slots :
    (/\ Handled(r)
     /\ req[r].endpoint \in {"collection", "item"}
     /\ ~(req[r].session.present /\ req[r].session.hasUser)
     /\ ~(corsEnabled /\ req[r].method = "OPTIONS"))
      => pc[r] = "done" /\ resp[r].status = 401 /\ loc[r].ncalls = 0

C6_Witness ==
  /\ Answered(1)
  /\ req[1].endpoint = "item" /\ req[1].method = "DELETE"
  /\ ~req[1].session.present
  /\ resp[1].status = 401
  /\ projects # {}

\* ---- C7
ConfiguredNames == {Configured[k] : k \in 1..Len(Configured)}

\* slot r's CREATE has been answered 201
CreateAnswered(r) ==
  /\ Answered(r)
  /\ req[r].endpoint = "collection" /\ req[r].method = "POST"
  /\ resp[r].status = 201

\* C7: after a CREATE answered 201 none of whose storage calls threw, the new
\* project has exactly one stage per configured stage name, each with empty
\* user_inputs and ai_outputs and finalized = false, and no other stage, and
\* the stored project's tags are the request's (empty when absent).
C7_StagesBootstrapped ==
  \A r \in Slots :
    CreateAnswered(r) /\ failing \cap (1..loc[r].ncalls) = {} =>
      LET p == resp[r].body.project[1] IN
        /\ p \in projects
        /\ \A n \in ConfiguredNames :
             Cardinality({s \in StageRows(p.id) : s.stage_name = n}) = 1
        /\ \A s \in StageRows(p.id) :
             /\ s.stage_name \in ConfiguredNames
             /\ s.user_inputs = EmptyDoc /\ s.ai_outputs = EmptyDoc
             /\ s.finalized = FALSE
        /\ p.tags = IF req[r].body.tags = None THEN <<>> ELSE req[r].body.tags[1]

C7_Witness ==
  /\ CreateAnswered(1) /\ failing = {}
  /\ customStages = <<>>
  /\ req[1].body.tags = Some(DemoTags)
  /\ Cardinality(stages) = 8
  /\ \E p \in projects : p.tags = DemoTags

\* ---- C8
\* the turns of the stage loop whose insertion did not throw (the project
\* insert is the request's first storage call, turn k its call k + 1)
TurnsKept == {k \in 1..Len(Configured) : (k + 1) \notin failing}

\* C8: once the project insert of a CREATE has succeeded the answer is 201
\* whatever stage insertions throw; the project row is kept, a stage exists
\* for every turn that did not throw and for no other name, each turn is
\* attempted once, and stages are added by nothing but the loop of a CREATE
\* in flight.
C8_PartialBootstrapKept ==
  [][\A r \in Slots :
       /\ (pc[r] = "createStage" /\ pc'[r] # "createStage")
            => (pc'[r] = "finally" /\ resp'[r].status = 201)
       /\ (CreateAnswered(r) =>
             LET p == resp[r].body.project[1] IN
               /\ p \in projects
               /\ loc[r].ncalls = 1 + Len(Configured)
               /\ {s.stage_name : s \in StageRows(p.id)}
                    = {Configured[k] : k \in TurnsKept})
       /\ \A s \in stages' \ stages :
            \E o \in Slots : pc[o] = "createStage" /\ loc[o].newProject[1].id = s.project_id]_vars

C8_Witness ==
  /\ CreateAnswered(1) /\ failing = {3, 4}
  /\ customStages = <<>>
  /\ {s.stage_name : s \in stages}
       = {"Ideation", "Development", "Testing", "Deployment", "Maintenance", "Review"}

\* ---- C9
RECURSIVE TrimStart(_)
\* String.prototype.trim, on character sequences
TrimStart(t) == IF t # <<>> /\ Head(t) = " " THEN TrimStart(Tail(t)) ELSE t
RECURSIVE TrimEnd(_)
TrimEnd(t) ==
  IF t # <<>> /\ t[Len(t)] = " " THEN TrimEnd(SubSeq(t, 1, Len(t) - 1)) ELSE t
Trim(t) == TrimEnd(TrimStart(t))

\* a CREATE whose title is missing or empty after trimming
CreateWithoutTitle(q) ==
  /\ q.endpoint = "collection" /\ q.method = "POST"
  /\ Identified(q)
  /\ q.headers.imp # "true"
  /\ (q.body.project_title = None \/ Trim(q.body.project_title[1]) = <<>>)

\* C9: a CREATE whose title is missing, empty or only whitespace is answered
\* 400 and inserts nothing.
C9_TitleRequiredAfterTrim ==
  \A r \in Slots :
    Handled(r) /\ CreateWithoutTitle(req[r]) =>
      /\ pc[r] \notin {"createProject", "createStage"}
      /\ pc[r] \in {"finally", "done"} => resp[r].status = 400

\* ---- C10
\* the row an UPDATE with body b turns row p into at time t
Patched(p, b, t) ==
  [id |-> p.id,
   user_id |-> p.user_id,
   project_title |->
     IF b.project_title = None THEN p.project_title ELSE b.project_title[1],
   project_description |->
     IF b.project_description = None THEN p.project_description
     ELSE b.project_description[1],
   tags |-> IF b.tags = None THEN p.tags ELSE b.tags[1],
   updated_at |-> t]

\* C10: an UPDATE answered 200 replaces the row by one that differs from it in
\* exactly the fields the body gives (a null description clears it, an empty
\* tag list empties the tags), with the id and owner kept and updated_at set
\* to the clock's new, later reading; no other row and no stage changes.
C10_PartialPatch ==
  [][\A r \in Slots :
       (pc[r] = "update" /\ resp'[r].status = 200) =>
         \E p \in projects :
           /\ p.id = req[r].id[1]
           /\ projects' = (projects \ {p}) \cup {Patched(p, req[r].body, now')}
           /\ now' > p.updated_at
           /\ resp'[r].body.project = Some(Patched(p, req[r].body, now'))
           /\ stages' = stages]_vars

C10_Witness ==
  /\ Answered(1) /\ req[1].endpoint = "item" /\ req[1].method = "PUT"
  /\ resp[1].status = 200
  /\ req[1].body.project_description = Some(Null)
  /\ req[1].body.tags = None
  /\ \E p \in projects :
       p.project_description = Null /\ p.tags = DemoTags /\ p.updated_at = 2

\* ---- C11
\* the ids the store has generated so far
IssuedIds == 1..(nextId - 1)

\* C11: the step of a DELETE that answers 200 leaves no Project and no
\* ProjectStage with the project's id; when the project row goes its stages
\* are gone already; an id that is gone stays gone, with no stage under it;
\* and a READ, UPDATE or DELETE of an id that matches no row is answered 404
\* (unless the lookup itself throws).
C11_DeleteRemovesAll ==
  [][\A r \in Slots :
       /\ (pc[r] = "delete" /\ resp'[r].status = 200) =>
            /\ \A p \in projects' : p.id # req[r].id[1]
            /\ \A t \in stages' : t.project_id # req[r].id[1]
       /\ \A id \in IssuedIds :
            /\ ((\E p \in projects : p.id = id) /\ (\A p \in projects' : p.id # id))
                 => StageRows(id) = {}
            /\ (\A p \in projects : p.id # id)
                 => /\ \A p \in projects' : p.id # id
                    /\ \A t \in stages' : t.project_id # id
       /\ (ItemAccess(r) /\ pc[r] = "findFirst" /\ MatchesNothing(r) /\ ~Throws(r))
            => (resp'[r] = NotFound /\ pc'[r] = "finally")]_vars

C11_Witness ==
  /\ Answered(1) /\ ItemAccess(1)
  /\ req[1].method = "PUT" /\ req[1].id = Some(1)
  /\ resp[1].status = 404
  /\ 1 \in IssuedIds
  /\ projects = {} /\ stages = {}
  /\ failing = {}

\* ---- C12
\* slot r's LIST is answered by this step
ListAnswered(r) == pc[r] = "findMany" /\ resp'[r].status = 200

\* C12: a LIST is answered with every project the effective user owns at the
\* time of the read, each once, as Project rows without stages, the later
\* updated_at first; and every CREATE and UPDATE stamps its row with a time
\* later than that of every row written before, so that the row touched last
\* comes first.
C12_ListMostRecentFirst ==
  [][/\ \A r \in Slots : ListAnswered(r) =>
          LET list == resp'[r].body.projects[1]
              owned == {p \in projects : p.user_id = Effective(req[r])}
          IN /\ Len(list) = Cardinality(owned)
             /\ {list[k] : k \in 1..Len(list)} = owned
             /\ \A k \in 1..Len(list) : "stages" \notin DOMAIN list[k]
             /\ \A a, b \in 1..Len(list) :
                  a < b => list[a].updated_at > list[b].updated_at
     /\ \A p \in projects' \ projects :
          /\ p.updated_at = now'
          /\ \A q \in projects : q.updated_at < p.updated_at]_vars

\* two CREATEs by u1, then an UPDATE of the first project, then a LIST: both
\* projects, the first one first
C12_Witness ==
  \E r \in Slots :
    /\ Answered(r) /\ req[r].endpoint = "collection" /\ req[r].method = "GET"
    /\ resp[r].status = 200
    /\ LET list == resp[r].body.projects[1] IN
         /\ Len(list) = 2
         /\ list[1].id = 1 /\ list[1].updated_at = 3
         /\ list[2].id = 2 /\ list[2].updated_at = 2
         /\ list[1].user_id = "u1" /\ list[2].user_id = "u1"

\* ---- C13
\* slot r holds a registration whose body passed validation
Registering(r) ==
  /\ req[r].endpoint = "register" /\ req[r].method = "POST"
  /\ pc[r] \in {"regFind", "regCreate"}

\* the address slot r registers has an identity record
Taken(r) == \E u \in users : u.email = req[r].body.email[1]

\* C13: a registration whose address has an identity record is answered 400
\* "User already exists" at the lookup and leaves the User table as it is; a
\* registration of a new address, when no storage call throws, inserts
\* exactly one record, with that address and oauth_provider = "email", and is
\* answered 201; no step removes or alters a record.
C13_RegisterOnce ==
  [][\A r \in Slots :
       /\ (Registering(r) /\ pc[r] = "regFind" /\ ~Throws(r)) =>
            IF Taken(r)
            THEN /\ pc'[r] = "finally"
                 /\ resp'[r].status = 400
                 /\ resp'[r].body.message = "User already exists"
                 /\ users' = users
            ELSE pc'[r] = "regCreate" /\ users' = users
       /\ (Registering(r) /\ pc[r] = "regCreate" /\ ~Throws(r) /\ ~Taken(r)) =>
            /\ \E u \in users' \ users :
                 /\ users' = users \cup {u}
                 /\ u.email = req[r].body.email[1]
                 /\ u.oauth_provider = "email"
            /\ resp'[r].status = 201
       /\ users \subseteq users']_vars

\* the new address is registered a second time, with another password
C13_Witness ==
  /\ Answered(1) /\ req[1].endpoint = "register"
  /\ req[1].body.email = Some(NewEmail)
  /\ req[1].body.password = Some(PasswordB)
  /\ resp[1].status = 400 /\ resp[1].body.message = "User already exists"
  /\ \E u \in users : u.email = NewEmail /\ u.password = Hash(PasswordA)
  /\ Cardinality(users) = 3

\* ---- C14
\* the passwords that requests carry
Plaintexts == {ShortPassword, PasswordA, PasswordB}

\* what a registration's response and registerUser's result may show of the
\* identity: its id, name, address, provider and time stamp
PublicIdentity(q) ==
  {[id |-> NewUserId, name |-> q.body.name[1], email |-> q.body.email[1],
    oauth_provider |-> "email", updated_at |-> t] : t \in 1..limit.clock}

RegisterMessages ==
  {"Method not allowed", "Required", "Name must be at least 2 characters",
   "Invalid email address", "Password must be at least 8 characters",
   "User already exists", "User registered successfully", "Internal server error"}

\* C14: no record of the User table holds a password as it was sent (a record
\* made by a registration holds the hash of the password sent), and every
\* response of the registration handler and every result of registerUser, on
\* success and on every error path, consists of a status, one of the fixed
\* messages and, on success only, the identity without any password field.
C14_PasswordNeverExposed ==
  /\ \A u \in users : u.password \notin Plaintexts
  /\ \A r \in Slots : (req[r].endpoint = "register" /\ resp[r].status # 0) =>
       /\ DOMAIN resp[r].body = DOMAIN NoBody
       /\ resp[r].body.message \in RegisterMessages
       /\ resp[r].body.error = Undef
       /\ resp[r].body.project = None /\ resp[r].body.projects = None
       /\ IF resp[r].status = 201
          THEN /\ resp[r].body.user # None
               /\ resp[r].body.user[1] \in PublicIdentity(req[r])
               /\ \E u \in users :
                    /\ u.email = req[r].body.email[1]
                    /\ u.password = Hash(req[r].body.password[1])
                    /\ u.password # req[r].body.password[1]
          ELSE resp[r].body.user = None
       /\ loc[r].result # None =>
            /\ DOMAIN loc[r].result[1] = {"success", "message", "status", "user"}
            /\ loc[r].result[1].message \in RegisterMessages
            /\ \/ loc[r].result[1].user = None
               \/ loc[r].result[1].user[1] \in PublicIdentity(req[r])

C14_Witness ==
  /\ Answered(1) /\ req[1].endpoint = "register"
  /\ resp[1].status = 201
  /\ req[1].body.password = Some(PasswordB)
  /\ resp[1].body.user # None
  /\ \E u \in users : u.id = NewUserId /\ u.password = Hash(PasswordB)

\* ---- C15
\* slot r's request has been refused as invalid or as not authorized
Refused(r) == resp[r].status \in {400, 403}

StoresKept == users' = users /\ projects' = projects /\ stages' = stages

\* C15: the step that answers 400 or 403 is taken before the request has made
\* any storage call and changes no User, Project or ProjectStage row; the
\* stores change only in a storage call of a request that has not been
\* refused; and nothing changes while a refused request runs to its end: the
\* stores are as they were when the request arrived.
C15_RefusedBeforeMutation ==
  [][/\ \A r \in Slots :
          (resp'[r].status \in {400, 403} /\ resp[r].status = 0)
            => (loc[r].ncalls = 0 /\ StoresKept)
     /\ ~StoresKept =>
          \E r \in Slots : loc'[r].ncalls = loc[r].ncalls + 1 /\ ~Refused(r)
     /\ (\E r \in Slots : Refused(r)) => StoresKept]_vars

\* an UPDATE with an empty title of a project the caller owns
C15_Witness ==
  /\ Answered(1) /\ ItemAccess(1) /\ req[1].method = "PUT"
  /\ resp[1].status = 400
  /\ \E p \in projects :
       /\ p.id = req[1].id[1] /\ p.user_id = req[1].session.id
       /\ p.project_title = DemoTitle /\ p.updated_at = 1
  /\ req[1].body.tags = Some(DemoTags)

\* ---- C16
\* C16: a 500 of either project handler carries the message "Internal server
\* error" and nothing else: no field holds the text of the underlying error.
C16_GenericFailure ==
  \A r \in Slots :
    (req[r].endpoint \in {"collection", "item"} /\ resp[r].status = 500) =>
      resp[r].body = [NoBody EXCEPT !.message = "Internal server error"]

\* ---- C17
\* C17: when a handler has returned, the client of its route holds no
\* connection, whatever the exit: a client is connected only while a request
\* of its route is between its first storage call and its finally block, and
\* a handler that made a storage call returns through finally.
C17_ConnectionReleased ==
  /\ \A r \in Slots : Answered(r) => ~connected[req[r].endpoint]
  /\ \A c \in Clients :
       connected[c] =>
         \E r \in Slots :
           req[r].endpoint = c /\ loc[r].ncalls > 0 /\ pc[r] \notin {"idle", "done"}

\* a lookup that found nothing: answered 404 after one storage call
C17_Witness ==
  /\ Answered(1) /\ req[1].endpoint = "item"
  /\ resp[1].status = 404
  /\ loc[1].ncalls = 1
  /\ \A c \in Clients : ~connected[c]

\* ---- C18
\* the method is none of those the endpoint dispatches on
Unsupported(q) ==
  \/ q.endpoint = "collection" /\ q.method \notin {"GET", "POST"}
  \/ q.endpoint = "item" /\ q.method \notin {"GET", "PUT", "DELETE"}
  \/ q.endpoint = "register" /\ q.method # "POST"

\* request q is authenticated and authorized: on /projects a caller with an
\* id who passes the impersonation check, on /projects/{id} the owner of the
\* project, on /register anyone
Authorized(q) ==
  \/ GateCase(q)
  \/ /\ q.endpoint = "item" /\ Identified(q) /\ q.id # None
     /\ \E p \in projects : p.id = q.id[1] /\ p.user_id = q.session.id
  \/ q.endpoint = "register"

\* OPTIONS to a project endpoint of a deployment with CORS enabled
CorsPreflight(q) ==
  corsEnabled /\ q.method = "OPTIONS" /\ q.endpoint \in {"collection", "item"}

\* the answer of slot r is sent by this step, and no storage call of the
\* request threw
AnsweredBy(r) ==
  /\ resp[r].status = 0 /\ resp'[r].status # 0
  /\ failing \cap (1..loc'[r].ncalls) = {}

\* C18 as stated: every method but GET and POST on /projects, but GET, PUT and
\* DELETE on /projects/{id}, but POST on /register is answered 405 and
\* changes nothing.
C18_Original ==
  [][\A r \in Slots :
       Unsupported(req'[r]) =>
         /\ StoresKept
         /\ (Authorized(req'[r]) /\ AnsweredBy(r)) => resp'[r].status = 405]_vars

\* C18 (amended): such a request is answered 405 and changes nothing, except
\* OPTIONS when CORS is enabled on the two project endpoints, which is
\* answered 200 as a preflight and changes nothing either.
C18_MethodNotSupported ==
  [][\A r \in Slots :
       Unsupported(req'[r]) =>
         /\ StoresKept
         /\ (Authorized(req'[r]) /\ AnsweredBy(r)) =>
              resp'[r].status = IF CorsPreflight(req'[r]) THEN 200 ELSE 405]_vars

\* a POST to /projects/{id} by the owner of the project
C18_Witness ==
  /\ Answered(1) /\ req[1].endpoint = "item" /\ req[1].method = "POST"
  /\ req[1].id # None
  /\ \E p \in projects : p.id = req[1].id[1] /\ p.user_id = req[1].session.id
  /\ resp[1].status = 405
  /\ loc[1].ncalls = 1

\* ---- C19
\* project id has one stage for every configured name and no other stage
Complete(id) ==
  /\ \A n \in ConfiguredNames :
       Cardinality({s \in StageRows(id) : s.stage_name = n}) = 1
  /\ \A s \in StageRows(id) : s.stage_name \in ConfiguredNames

\* slot r holds a CREATE
Creating(r) == req[r].endpoint = "collection" /\ req[r].method = "POST"

\* C19: with the storage calls of the requests interleaved in every order,
\* every CREATE is answered 201; a turn of a stage loop attaches its stage to
\* the project of its own request; and when two CREATEs have been answered
\* their projects have distinct ids, both are stored, and each has its own
\* complete set of stages.
C19_ConcurrentCreates ==
  [][/\ \A r \in Slots :
          (Creating(r) /\ resp'[r].status # 0) => resp'[r].status = 201
     /\ \A r \in Slots :
          (pc[r] = "createStage" /\ loc'[r] # loc[r]) =>
            \A s \in stages' \ stages : s.project_id = loc[r].newProject[1].id
     /\ \A r1, r2 \in Slots :
          (r1 # r2 /\ CreateAnswered(r1) /\ CreateAnswered(r2)) =>
            LET id1 == resp[r1].body.project[1].id
                id2 == resp[r2].body.project[1].id
            IN /\ id1 # id2
               /\ \E p \in projects : p.id = id1
               /\ \E p \in projects : p.id = id2
               /\ Complete(id1) /\ Complete(id2)]_vars

\* two CREATEs of u1 in flight together, both answered: the one that got its
\* project second answered by slot 1
C19_Witness ==
  /\ CreateAnswered(1) /\ CreateAnswered(2)
  /\ req[1].session.id = "u1" /\ req[2].session.id = "u1"
  /\ resp[1].body.project[1].id = 2 /\ resp[2].body.project[1].id = 1
  /\ customStages = <<>>
  /\ Cardinality(stages) = 16

\* ---- C20
\* slot r's UPDATE has been answered 200
UpdateAnswered(r) ==
  /\ Answered(r) /\ req[r].endpoint = "item" /\ req[r].method = "PUT"
  /\ resp[r].status = 200

\* the value of a field after the writes of body b1 and then of body b2, v
\* being its value after the write of b1
LastWritten(given2, value2, v) == IF given2 THEN value2 ELSE v

\* C20: with the storage calls of the requests interleaved in every order, an
\* UPDATE that has found its project is answered 200 whatever has been
\* written since its lookup, and writes exactly the fields it gives onto the
\* row as it is then; so after two UPDATEs of a project, written one right
\* after the other, every field holds the value of the later write that gave
\* it, else the value the earlier write left.
C20_LastWriteWins ==
  [][/\ \A r \in Slots : (pc[r] = "update" /\ pc'[r] # "update") =>
          \E p \in projects :
            /\ p.id = req[r].id[1]
            /\ resp'[r].status = 200
            /\ projects' = (projects \ {p}) \cup {Patched(p, req[r].body, now')}
     /\ \A r1, r2 \in Slots :
          (/\ UpdateAnswered(r1) /\ UpdateAnswered(r2)
           /\ req[r1].id = req[r2].id
           /\ resp[r2].body.project[1].updated_at
                = resp[r1].body.project[1].updated_at + 1
           /\ resp[r2].body.project[1].updated_at = now) =>
            LET first == resp[r1].body.project[1]
                b2 == req[r2].body
            IN \E p \in projects :
                 /\ p.id = req[r1].id[1]
                 /\ p.project_title
                      = LastWritten(b2.project_title # None, b2.project_title[1],
                                    first.project_title)
                 /\ p.project_description
                      = LastWritten(b2.project_description # None,
                                    b2.project_description[1], first.project_description)
                 /\ p.tags = LastWritten(b2.tags # None, b2.tags[1], first.tags)
                 /\ p.user_id = first.user_id]_vars

\* two UPDATEs of project 1 whose lookups both saw the row as it was created:
\* slot 1 sets the description, then slot 2 clears it and sets the title
C20_Witness ==
  /\ UpdateAnswered(1) /\ UpdateAnswered(2)
  /\ req[1].id = Some(1) /\ req[2].id = Some(1)
  /\ loc[1].project = loc[2].project
  /\ req[1].body.project_description = Some(<<"d">>)
  /\ req[2].body.project_description = Some(Null)
  /\ resp[1].body.project[1].updated_at = 2
  /\ resp[2].body.project[1].updated_at = 3
  /\ \E p \in projects :
       p.id = 1 /\ p.project_description = Null /\ p.project_title = BlankTitle

\* ---- C21
\* the turn of the stage loop that slot r takes next inserts a stage whose
\* (project id, stage name) pair the table holds already
DuplicateTurn(r) ==
  /\ pc[r] = "createStage"
  /\ \E s \in stages :
       /\ s.project_id = loc[r].newProject[1].id
       /\ s.stage_name = Configured[loc[r].i]

\* C21: after every step the ProjectStage table holds at most one row per
\* (project id, stage name) pair, whatever the configured list and whatever
\* the order of the storage calls of the requests in flight; a turn of the
\* stage loop whose pair is in the table already leaves the table as it is,
\* and the loop goes on to its next turn or to the 201.
C21_OneStagePerName ==
  [][/\ \A s, t \in stages' :
          (s.project_id = t.project_id /\ s.stage_name = t.stage_name) => s = t
     /\ \A r \in Slots :
          (DuplicateTurn(r) /\ loc'[r] # loc[r]) =>
            /\ stages' = stages
            /\ loc'[r].i = loc[r].i + 1
            /\ IF loc[r].i = Len(Configured)
               THEN pc'[r] = "finally" /\ resp'[r].status = 201
               ELSE pc'[r] = "createStage"]_vars

\* two CREATEs in flight together under a list that names Planning twice:
\* each project has one Planning and one Ideation stage
C21_Witness ==
  /\ customStages = CustomStages
  /\ CreateAnswered(1) /\ CreateAnswered(2)
  /\ loc[1].ncalls = 4 /\ loc[2].ncalls = 4
  /\ \A id \in {1, 2} :
       {s.id : s \in StageRows(id)} = {<<id, 1>>, <<id, 2>>}

\* ---- C22
\* slot r holds a DELETE of a project
Deleting(r) == req[r].endpoint = "item" /\ req[r].method = "DELETE"

\* the step adds stages, all of them for the project that slot r's CREATE has
\* inserted, and leaves every other stage as it is
AddsOwnStages(r) ==
  /\ Creating(r) /\ pc[r] = "createStage"
  /\ stages \subseteq stages'
  /\ \A s \in stages' \ stages :
       /\ s.project_id = loc[r].newProject[1].id
       /\ loc[r].newProject[1] \in projects

\* the step removes the stages of the project that slot r deletes, and leaves
\* every other stage as it is
RemovesOwnStages(r) ==
  /\ Deleting(r) /\ pc[r] \in {"deleteMany", "delete"}
  /\ stages' = {s \in stages : s.project_id # req[r].id[1]}

\* the request of slot r is going to fail: the storage call after the next
\* one is the project delete, and it throws
DeleteWillFail(r) == pc[r] = "deleteMany" /\ (loc[r].ncalls + 2) \in failing

\* C22: a step that changes the ProjectStage table is a turn of the stage
\* loop of a CREATE, which adds stages for the project just inserted, or a
\* storage call of a DELETE, which removes the stages of its project; no
\* step of a LIST, READ, UPDATE or registration changes the table; and no
\* step of a request that is answered with a failure changes it.
C22_StageFrame ==
  [][/\ stages' # stages =>
          \E r \in Slots : AddsOwnStages(r) \/ RemovesOwnStages(r)
     /\ \A r \in Slots :
          (/\ pc'[r] # pc[r]
           /\ pc[r] \in {"findMany", "findFirst", "findUnique", "update",
                         "regFind", "regCreate", "finally", "done", "idle"})
            => stages' = stages
     /\ \A r \in Slots :
          (resp[r].status >= 400 \/ resp'[r].status >= 400 \/ DeleteWillFail(r))
            => stages' = stages]_vars

\* ---- C23
\* the id the impersonation check settles on: the target for a listed caller
\* of a non-empty allow-list who names one, else the caller's own id
Settled(q) ==
  IF q.headers.imp = "true" /\ q.headers.target # Undef
     /\ Len(adminEmails) > 0 /\ Listed(q)
  THEN q.headers.target
  ELSE q.session.id

\* a CREATE with a valid title by a listed caller whose body names a user
\* other than the settled one
BodyOverrides(q) ==
  /\ q.method = "POST"
  /\ q.body.project_title # None /\ Len(q.body.project_title[1]) > 0
  /\ q.body.user_id # None /\ q.body.user_id[1] # Settled(q)
  /\ Len(adminEmails) > 0 /\ Listed(q)

\* slot r holds a request to /projects that is past the impersonation check
\* and has not returned
Dispatched(r) == req[r].endpoint = "collection" /\ pc[r] \notin {"idle", "done"}

\* the id the storage calls of request q use: the settled id, or, when the
\* body's user_id is honoured, the body's user_id where it overrides
UsedId(q, bodyHonoured) ==
  IF bodyHonoured /\ BodyOverrides(q) THEN q.body.user_id[1] ELSE Settled(q)

\* every storage call of the requests to /projects uses that id: userId holds
\* it from the first storage call to the return, LIST returns rows of that
\* owner only and CREATE inserts a row of that owner
UsesThroughout(bodyHonoured) ==
  \A r \in Slots :
    /\ (req'[r].endpoint = "collection" /\ pc'[r] \notin {"idle", "done"})
         => loc'[r].userId = UsedId(req'[r], bodyHonoured)
    /\ (Dispatched(r) /\ pc[r] = "findMany" /\ resp'[r].status = 200) =>
         LET list == resp'[r].body.projects[1] IN
           \A k \in 1..Len(list) : list[k].user_id = UsedId(req[r], bodyHonoured)
    /\ (Dispatched(r) /\ pc[r] = "createProject") =>
         \A p \in projects' \ projects : p.user_id = UsedId(req[r], bodyHonoured)

\* C23 as stated: the id that the impersonation check settled on is the id
\* that userId holds for the rest of the request and that every storage call
\* uses, including the insert of a CREATE whose body carries user_id.
C23_Original == [][UsesThroughout(FALSE)]_vars

\* C23 (amended): userId is settled before the first storage call of the
\* request and keeps its value from then on; it is the id the impersonation
\* check settled on, except in a CREATE by a listed caller whose body names
\* another user, where the POST branch assigns the body's user_id to it
\* before the project is inserted.
C23_EffectiveIdFixed == [][UsesThroughout(TRUE)]_vars

\* the admin impersonates u2 by header and names u1 in the body: the project
\* is inserted for u1
C23_Witness ==
  /\ CreateAnswered(1)
  /\ req[1].session.id = "u1"
  /\ req[1].headers.target = "u2"
  /\ Settled(req[1]) = "u2"
  /\ req[1].body.user_id = Some("u1")
  /\ loc[1].userId = "u1"
  /\ resp[1].body.project[1].user_id = "u1"

\* ---- C24
\* a request to /projects/{id} of a caller with an id that names a project
\* id and is not a CORS preflight: the requests that get to the lookup
\* (another request is answered before it: 200 preflight, 401, or 400 for a
\* missing id)
ItemCall(q) ==
  /\ q.endpoint = "item"
  /\ Identified(q)
  /\ q.id # None
  /\ ~(corsEnabled /\ q.method = "OPTIONS")

\* the id of request q matches no project, or a project of another user
Miss(q, table) ==
  \A p \in table : p.id = q.id[1] => p.user_id # q.session.id

OptionsArrives(r) ==
  /\ pc[r] = "idle" /\ pc'[r] # "idle"
  /\ req'[r].method = "OPTIONS"
  /\ req'[r].endpoint \in {"collection", "item"}

\* slot r holds an OPTIONS request to a project endpoint
OptionsHeld(r) ==
  req[r].method = "OPTIONS" /\ req[r].endpoint \in {"collection", "item"}

\* the caller has a session with a user
SessionGiven(q) == q.session.present /\ q.session.hasUser

\* C25: with CORS enabled, OPTIONS on /projects and on /projects/{id} is
\* answered at once, with or without a session: 200, the
\* Access-Control-Allow-* headers, an empty body, no storage call and no
\* change of the store.  With CORS disabled no response carries these
\* headers and OPTIONS goes the way of a method the endpoint does not
\* dispatch on: 401 without storage access when the session or (on
\* /projects) its user id is missing; else, for a request without
\* impersonation headers, 405 on /projects without storage access, and on
\* /projects/{id} the ownership lookup, answered 404 on a miss and 405 on a
\* hit (500 when it throws).
C25_Preflight ==
  [][\A r \in Slots :
       /\ (corsEnabled /\ OptionsArrives(r)) =>
            /\ pc'[r] = "done"
            /\ resp'[r] = [status |-> 200, cors |-> TRUE, body |-> NoBody]
            /\ loc'[r].ncalls = 0
            /\ users' = users /\ projects' = projects /\ stages' = stages
            /\ connected' = connected
       /\ ~corsEnabled => ~resp'[r].cors
       /\ (~corsEnabled /\ OptionsArrives(r) /\ ~SessionGiven(req'[r])) =>
            (pc'[r] = "done" /\ resp'[r].status = 401 /\ loc'[r].ncalls = 0)
       /\ (~corsEnabled /\ OptionsArrives(r) /\ SessionGiven(req'[r])
           /\ req'[r].endpoint = "collection" /\ req'[r].headers.imp # "true") =>
            /\ resp'[r].status = IF req'[r].session.id = Undef THEN 401 ELSE 405
            /\ pc'[r] \in {"finally", "done"}
            /\ loc'[r].ncalls = 0
       /\ (~corsEnabled /\ OptionsArrives(r) /\ ItemCall(req'[r])) =>
            (pc'[r] = "findFirst" /\ resp'[r] = NoResponse)
       /\ (~corsEnabled /\ OptionsHeld(r) /\ ItemCall(req[r]) /\ pc[r] = "findFirst") =>
            /\ pc'[r] = "finally"
            /\ resp'[r].status
                 = IF Throws(r) THEN 500
                   ELSE IF Miss(req[r], projects) THEN 404 ELSE 405
            /\ users' = users /\ projects' = projects /\ stages' = stages]_vars

\* OPTIONS /projects/{id} without a session, CORS enabled, a project stored
C25_Witness ==
  /\ corsEnabled
  /\ Answered(1) /\ req[1].endpoint = "item" /\ req[1].method = "OPTIONS"
  /\ ~req[1].session.present
  /\ resp[1] = [status |-> 200, cors |-> TRUE, body |-> NoBody]
  /\ loc[1].ncalls = 0
  /\ projects # {}

\* ---- C28
\* the session of request q has a user but no user id
NoUserId(q) == q.session.present /\ q.session.hasUser /\ q.session.id = Undef

\* C28: a request whose session has a user without an id reaches no project:
\* on /projects it is answered 401 without a storage call (200 for a CORS
\* preflight); on /projects/{id} its ownership lookup finds no project, so
\* that it never gets to the read, the update or the delete of a project and
\* no response of it carries a project.
C28_NoIdReachesNothing ==
  \A r \in Slots :
    (Handled(r) /\ NoUserId(req[r])) =>
      /\ req[r].endpoint = "collection" =>
           /\ pc[r] = "done" /\ loc[r].ncalls = 0
           /\ resp[r].status = IF CorsPreflight(req[r]) THEN 200 ELSE 401
      /\ req[r].endpoint = "item" =>
           /\ loc[r].project = None
           /\ pc[r] \notin {"findUnique", "update", "deleteMany", "delete"}
           /\ resp[r].body.project = None
           /\ resp[r].status \in {0, 400, 401, 404, 500}
                \/ (CorsPreflight(req[r]) /\ resp[r].status = 200)

\* ---- C26
\* slot r's READ has been answered 200
ReadAnswered(r) ==
  /\ req[r].endpoint = "item" /\ req[r].method = "GET"
  /\ resp[r].status = 200

\* C26: a READ answered 200 carries a project, not null: the row with the
\* request's id, owned by the caller, with its stages; this with the storage
\* calls of a DELETE of the same project by its owner in any order with
\* those of the READ.
C26_ReadNeverNull ==
  \A r \in Slots :
    ReadAnswered(r) =>
      /\ resp[r].body.project # None
      /\ resp[r].body.project[1] # Null
      /\ resp[r].body.project[1][1].row.id = req[r].id[1]
      /\ resp[r].body.project[1][1].row.user_id = req[r].session.id

\* ---- C27
\* C27: in every state, with the storage calls of a CREATE and of a DELETE
\* of the project it has inserted in any order, every row of the
\* ProjectStage table has the id of a row of the Project table.
C27_NoOrphanStage ==
  \A s \in stages : \E p \in projects : p.id = s.project_id

\* a CREATE is in its stage loop, with a turn taken and turns to take, the
\* project it inserted has been deleted by a DELETE answered 200
C27_Witness ==
  /\ Creating(1) /\ pc[1] = "createStage"
  /\ loc[1].i = 3
  /\ Deleting(2) /\ req[2].id = Some(loc[1].newProject[1].id)
  /\ resp[2].status = 200
  /\ loc[2].ncalls = 3
  /\ projects = {}
  /\ stages = {}

\* ---- C30
\* slot r's registration of address e has been answered
RegisterAnswered(r, e) ==
  /\ Answered(r)
  /\ req[r].endpoint = "register" /\ req[r].method = "POST"
  /\ req[r].body.email = Some(e)

\* C30: at most one record of the User table has a given address; a
\* registration is never answered 500; and of two registrations of the same
\* address that are both answered, one is answered 201 and the other 400
\* "User already exists".
C30_ConcurrentRegistration ==
  /\ \A u, v \in users : u.email = v.email => u = v
  /\ \A r \in Slots :
       RegisterAnswered(r, NewEmail) => resp[r].status \in {201, 400}
  /\ \A r1, r2 \in Slots :
       (r1 # r2 /\ RegisterAnswered(r1, NewEmail) /\ RegisterAnswered(r2, NewEmail)
        /\ 201 \in {resp[r1].status, resp[r2].status}) =>
         {resp[r1].status, resp[r2].status} = {201, 400}

\* ---- C29
\* the middleware has returned for a request without a token
AnonymousReturned == mwPc = "done" /\ mwReq.token = None

\* C29: under every configuration, a request without a token whose path
\* starts with one of the protectedPaths is redirected to loginPath with
\* callbackUrl set to the requested URL and not passed on, whatever the
\* publicPaths are; and with empty protectedPaths the same holds of every
\* path that starts with none of the publicPaths.
C29_ProtectedNeverPassed ==
  AnonymousReturned =>
    /\ (\E k \in 1..Len(mwOptions.protectedPaths) :
          StartsWith(mwReq.pathname, mwOptions.protectedPaths[k]))
         => /\ mwResp.kind = "redirect"
            /\ mwResp.location.url = <<mwReq.origin>> \o mwOptions.loginPath
            /\ mwResp.location.callbackUrl = <<mwReq.origin>> \o mwReq.pathname
    /\ (/\ Len(mwOptions.protectedPaths) = 0
        /\ \A k \in 1..Len(mwOptions.publicPaths) :
             ~StartsWith(mwReq.pathname, mwOptions.publicPaths[k]))
         => /\ mwResp.kind = "redirect"
            /\ mwResp.location.url = <<mwReq.origin>> \o mwOptions.loginPath
            /\ mwResp.location.callbackUrl = <<mwReq.origin>> \o mwReq.pathname

====
